---- MODULE Spec2Model ----
(***************************************************************************)
(* Model of the computer monitor (src/monitor.py): MonitorDialog keeps one *)
(* HID handle, a one-second QTimer and a first-sample flag; its handlers   *)
(* (handle_connect, handle_disconnect, send_system_metrics) run one at a   *)
(* time on the Qt event loop.                                              *)
(*                                                                         *)
(* The environment (the hid library and the OS metrics provider) is a      *)
(* nondeterministic choice per call: an enumeration of endpoints, whether  *)
(* hid.Device(path) opens or raises, whether write succeeds or raises,     *)
(* and what read returns within its timeout.                               *)
(***************************************************************************)
EXTENDS Integers, Sequences, FiniteSets, TLC

\* ---------------------------------------------------------------- constants
VENDOR_ID == 42819
PRODUCT_ID == 608
USAGE_PAGE == 65376
USAGE == 97
REPORT_LENGTH == 32
TimerIntervalMs == 1000
ReadTimeoutMs == 500
\* self.hid_interface = None
None == 0

\* ------------------------------------------------------------------- bounds
\* handles the hid library hands out over one run
MaxHandles == 2
\* endpoints in one enumeration
MaxEndpoints == 2
\* button clicks waiting in the event queue
MaxQueue == 2
\* bytes of a short (non-full) response
ShortLen == 1
\* longest payload a caller hands to send_raw_report
MaxPayload == 33
\* endpoints in one enumeration where the enumeration is recorded
MaxListed == 3

\* ------------------------------------------------------------- input domains
NoPath == "none"
\* an endpoint as hid.enumerate lists it
Endpoint(page, usage, path) ==
    [vendor_id |-> VENDOR_ID, product_id |-> PRODUCT_ID,
     usage_page |-> page, usage |-> usage, path |-> path]
\* endpoints hid.enumerate(VENDOR_ID, PRODUCT_ID) can list: the library has
\* already filtered on vendor and product; two raw-HID collections, one that
\* shares only the usage page and one that shares only the usage
Endpoints ==
    {Endpoint(USAGE_PAGE, USAGE, "A"), Endpoint(USAGE_PAGE, USAGE, "B"),
     Endpoint(USAGE_PAGE, 6, "C"), Endpoint(1, USAGE, "D")}
Enumerations == UNION {[1..n -> Endpoints] : n \in 0..MaxEndpoints}
ListedEnumerations == UNION {[1..n -> Endpoints] : n \in 0..MaxListed}

\* counter readings (PDH_FMT_DOUBLE) and psutil percentages, in tenths
CpuReadings == {-15, 25, 574, 2999}
RamReadings == {-19, 829, 3001}

\* what hid read(REPORT_LENGTH, timeout=500) can return
Fill(n, b) == [i \in 1..n |-> b]
Responses == {<<>>, Fill(ShortLen, 7), Fill(REPORT_LENGTH, 0), Fill(REPORT_LENGTH, 171)}

Handles == 1..MaxHandles

\* payloads and command bytes a caller hands to send_raw_report: n bytes
\* counting up from b, so that their order shows in the report
PayloadBytes(n, b) == [i \in 1..n |-> (b + i - 1) % 256]
Commands == {0, 1, 255}
RawRequests ==
    {<<c>> \o PayloadBytes(n, b) : c \in Commands, n \in 0..MaxPayload, b \in {2, 250}}
        \cup {<<1, 57, 82>>}

VARIABLES
    hid_interface,    \* None or the handle held
    timerActive,      \* QTimer running
    is_first_sample,  \* CPU baseline not yet established
    cpu_query_handle, \* None or the open PDH query
    pc,               \* "start", "idle", "reading" (blocking read), "terminated"
    eventQueue,       \* button clicks posted and not yet dispatched
    nextHandle,       \* handles opened so far
    closeCount,       \* close() calls per handle
    handlePath,       \* path each handle was opened on
    discovered,       \* path the last discovery returned
    ioOnClosed,       \* a write or read was issued on a closed handle
    op,               \* handler that ran last (or is running)
    wasConnected,     \* a handle was held when that handler started
    calls,            \* library calls that handler made
    outcome,          \* what the environment answered to that handler
    logged,           \* status messages that handler appended
    escaped,          \* exception that left that handler uncaught
    lastReport,       \* bytes of the last report written
    surfaced,         \* bytes of the last response logged
    request,          \* data handed to the last send_raw_report call
    sample,           \* readings and results of the last get_system_metrics call
    sampledOnce,      \* get_cpu_usage has been called since the counter was set up
    listed            \* enumeration seen by the last observed discovery

vars == <<hid_interface, timerActive, is_first_sample, cpu_query_handle, pc,
          eventQueue, nextHandle, closeCount, handlePath, discovered,
          ioOnClosed, op, wasConnected, calls, outcome, logged, escaped,
          lastReport, surfaced, request, sample, sampledOnce, listed>>

\* what the metric and report steps write
metricVars == <<request, sample, sampledOnce>>

\* sample before any get_system_metrics call
NoSample ==
    [first |-> FALSE, cpuReading |-> 0, ramReading |-> 0, cpu_percent |-> 0,
     ram_percent |-> 0]

NoCalls ==
    [enumerate |-> 0, open |-> 0, close |-> 0, write |-> 0, read |-> 0,
     collect |-> 0, ram |-> 0, timerStart |-> 0, timerStop |-> 0]

\* ------------------------------------------------------------ pure functions
\* variant: "or" in place of "and"
IsRawHid_Either(i) == i.usage_page = USAGE_PAGE \/ i.usage = USAGE

\* i["usage_page"] == USAGE_PAGE and i["usage"] == USAGE
IsRawHid(i) == i.usage_page = USAGE_PAGE /\ i.usage = USAGE

\* the list comprehension of get_hid_interface
RawHidInterfaces(device_interfaces) == SelectSeq(device_interfaces, IsRawHid)

\* path handed to hid.Device, NoPath when the filtered list is empty
DiscoverPath(device_interfaces) ==
    LET raw == RawHidInterfaces(device_interfaces)
    IN  IF raw = <<>> THEN NoPath ELSE raw[1].path

\* Python round() of a double given in tenths: half to even
PyRound(t) ==
    LET q == t \div 10
        r == t % 10
    IN  IF r < 5 THEN q
        ELSE IF r > 5 THEN q + 1
        ELSE IF q % 2 = 0 THEN q ELSE q + 1

\* Python int() of a float given in tenths: truncation toward zero
PyInt(t) == IF t >= 0 THEN t \div 10 ELSE -((-t) \div 10)

\* variant: the value is used unmasked
Mask8_Unmasked(v) == v

\* value & 0xFF on a Python int
Mask8(v) == v % 256

\* variant: the data is placed from index 0, over the report id
EncodeReport_AtZero(data) ==
    data \o SubSeq(Fill(REPORT_LENGTH + 1, 0), Len(data) + 1, REPORT_LENGTH + 1)

\* request_data = [0x00] * (REPORT_LENGTH + 1); request_data[1:len(data)+1] = data
EncodeReport(data) ==
    LET zeros == Fill(REPORT_LENGTH + 1, 0)
        stop == IF Len(data) + 1 < REPORT_LENGTH + 1 THEN Len(data) + 1
                ELSE REPORT_LENGTH + 1
    IN  <<0>> \o data \o SubSeq(zeros, stop + 1, REPORT_LENGTH + 1)

\* variant: the first sample is not suppressed
CpuUsage_NoSuppress(first, reading) == PyRound(reading)

\* value get_cpu_usage returns for a counter reading
CpuUsage(first, reading) == IF first THEN 0 ELSE PyRound(reading)

\* data = [0x01, cpu & 0xFF, ram & 0xFF]
MetricsData(cpu, ram) == <<1, Mask8(cpu), Mask8(ram)>>

\* ---------------------------------------------------------------- the state
Init ==
    /\ hid_interface = None
    /\ timerActive = FALSE
    /\ is_first_sample = TRUE
    /\ cpu_query_handle = None
    /\ pc = "start"
    /\ eventQueue = <<>>
    /\ nextHandle = 0
    /\ closeCount = [h \in Handles |-> 0]
    /\ handlePath = [h \in Handles |-> NoPath]
    /\ discovered = NoPath
    /\ ioOnClosed = FALSE
    /\ op = "none"
    /\ wasConnected = FALSE
    /\ calls = NoCalls
    /\ outcome = "none"
    /\ logged = <<>>
    /\ escaped = "none"
    /\ lastReport = <<>>
    /\ surfaced = <<>>
    /\ request = <<>>
    /\ sample = NoSample
    /\ sampledOnce = FALSE
    /\ listed = <<>>

\* variant: handlers are dispatched while another one sits in its read
EventLoopIdle_Reentrant == pc \in {"idle", "reading"}

\* the Qt event loop runs one handler at a time, to completion
EventLoopIdle == pc = "idle"

\* room left under the handle bound for one more open
CanOpen == nextHandle < MaxHandles

\* ------------------------------------------------------------------ handlers
\* variant: the devices are enumerated before the held handle is looked at
ConnectAlready_Enumerates(after) ==
    /\ logged' = <<"AlreadyConnected">>
    /\ calls' = [NoCalls EXCEPT !.enumerate = 1]
    /\ outcome' = "already"
    /\ escaped' = "none"
    /\ pc' = after
    /\ UNCHANGED <<hid_interface, timerActive, nextHandle, handlePath, discovered>>

\* handle_connect with a handle held: "Already connected." and return
ConnectAlready(after) ==
    /\ logged' = <<"AlreadyConnected">>
    /\ calls' = NoCalls
    /\ outcome' = "already"
    /\ escaped' = "none"
    /\ pc' = after
    /\ UNCHANGED <<hid_interface, timerActive, nextHandle, handlePath, discovered>>

\* variant: timer.start() placed after the if/else, so it runs on no match too
ConnectNoMatch_TimerStarted(after) ==
    /\ discovered' = NoPath
    /\ logged' = <<"NoDeviceFound">>
    /\ calls' = [NoCalls EXCEPT !.enumerate = 1, !.timerStart = 1]
    /\ outcome' = "no_match"
    /\ escaped' = "none"
    /\ pc' = after
    /\ timerActive' = TRUE
    /\ UNCHANGED <<hid_interface, nextHandle, handlePath>>

\* get_hid_interface returned None: "No device found. ..."
ConnectNoMatch(after) ==
    /\ discovered' = NoPath
    /\ logged' = <<"NoDeviceFound">>
    /\ calls' = [NoCalls EXCEPT !.enumerate = 1]
    /\ outcome' = "no_match"
    /\ escaped' = "none"
    /\ pc' = after
    /\ UNCHANGED <<hid_interface, timerActive, nextHandle, handlePath>>

\* hid.Device(path=...) raises inside get_hid_interface: nothing catches it,
\* the assignment to self.hid_interface never happens and nothing is logged
ConnectOpenRaises(path, after) ==
    /\ discovered' = path
    /\ logged' = <<>>
    /\ calls' = [NoCalls EXCEPT !.enumerate = 1, !.open = 1]
    /\ outcome' = "open_failed"
    /\ escaped' = "HIDException"
    /\ pc' = after
    /\ UNCHANGED <<hid_interface, timerActive, nextHandle, handlePath>>

\* variant: timer.start() forgotten
ConnectOpened_NoTimer(path, after) ==
    /\ discovered' = path
    /\ nextHandle' = nextHandle + 1
    /\ hid_interface' = nextHandle + 1
    /\ handlePath' = [handlePath EXCEPT ![nextHandle + 1] = path]
    /\ logged' = <<"Connected">>
    /\ calls' = [NoCalls EXCEPT !.enumerate = 1, !.open = 1]
    /\ outcome' = "opened"
    /\ escaped' = "none"
    /\ pc' = after
    /\ UNCHANGED timerActive

\* get_hid_interface returned a device: keep it, log it, start the timer
ConnectOpened(path, after) ==
    /\ discovered' = path
    /\ nextHandle' = nextHandle + 1
    /\ hid_interface' = nextHandle + 1
    /\ handlePath' = [handlePath EXCEPT ![nextHandle + 1] = path]
    /\ timerActive' = TRUE
    /\ logged' = <<"Connected">>
    /\ calls' = [NoCalls EXCEPT !.enumerate = 1, !.open = 1, !.timerStart = 1]
    /\ outcome' = "opened"
    /\ escaped' = "none"
    /\ pc' = after

\* handle_connect; afterOk / afterRaise are where control goes next
handle_connect(device_interfaces, openOk, afterOk, afterRaise) ==
    /\ op' = "connect"
    /\ wasConnected' = (hid_interface # None)
    /\ UNCHANGED <<is_first_sample, closeCount, ioOnClosed, lastReport, surfaced,
                   metricVars>>
    /\ IF hid_interface # None
       THEN ConnectAlready(afterOk)
       ELSE LET path == DiscoverPath(device_interfaces)
            IN  IF path = NoPath THEN ConnectNoMatch(afterOk)
                ELSE IF openOk THEN ConnectOpened(path, afterOk)
                ELSE ConnectOpenRaises(path, afterRaise)

\* variant: timer.stop() forgotten
DisconnectHeld_KeepsTimer ==
    /\ closeCount' = [closeCount EXCEPT ![hid_interface] = @ + 1]
    /\ hid_interface' = None
    /\ logged' = <<"Disconnected">>
    /\ calls' = [NoCalls EXCEPT !.close = 1]
    /\ outcome' = "closed"
    /\ UNCHANGED timerActive

\* variant: self.hid_interface = None forgotten after close()
DisconnectHeld_KeepsHandle ==
    /\ timerActive' = FALSE
    /\ closeCount' = [closeCount EXCEPT ![hid_interface] = @ + 1]
    /\ logged' = <<"Disconnected">>
    /\ calls' = [NoCalls EXCEPT !.timerStop = 1, !.close = 1]
    /\ outcome' = "closed"
    /\ UNCHANGED hid_interface

\* handle_disconnect with a handle held
DisconnectHeld ==
    /\ timerActive' = FALSE
    /\ closeCount' = [closeCount EXCEPT ![hid_interface] = @ + 1]
    /\ hid_interface' = None
    /\ logged' = <<"Disconnected">>
    /\ calls' = [NoCalls EXCEPT !.timerStop = 1, !.close = 1]
    /\ outcome' = "closed"

\* handle_disconnect with no handle: "No active connection to disconnect."
DisconnectNone ==
    /\ logged' = <<"NotConnected">>
    /\ calls' = NoCalls
    /\ outcome' = "not_connected"
    /\ UNCHANGED <<hid_interface, timerActive, closeCount>>

\* variant: disconnecting re-arms the first-sample suppression
handle_disconnect_ResetsBaseline ==
    /\ op' = "disconnect"
    /\ wasConnected' = (hid_interface # None)
    /\ escaped' = "none"
    /\ pc' = "idle"
    /\ is_first_sample' = TRUE
    /\ UNCHANGED <<nextHandle, handlePath, discovered, ioOnClosed, lastReport,
                   surfaced, metricVars>>
    /\ IF hid_interface # None THEN DisconnectHeld ELSE DisconnectNone

\* handle_disconnect
handle_disconnect ==
    /\ op' = "disconnect"
    /\ wasConnected' = (hid_interface # None)
    /\ escaped' = "none"
    /\ pc' = "idle"
    /\ UNCHANGED <<is_first_sample, nextHandle, handlePath, discovered,
                   ioOnClosed, lastReport, surfaced, metricVars>>
    /\ IF hid_interface # None THEN DisconnectHeld ELSE DisconnectNone

\* the handle is unusable: none is held, or the one held was closed
Stale(h) == h = None \/ closeCount[h] > 0

\* send_raw_report with no handle: "Not connected to any device."
RawNotConnected(made) ==
    /\ logged' = <<"NotConnectedRaw">>
    /\ calls' = made
    /\ outcome' = "not_connected"
    /\ escaped' = "none"
    /\ pc' = "idle"
    /\ UNCHANGED <<hid_interface, timerActive, lastReport, ioOnClosed>>

\* variant: a failed write drops the handle and stops the timer
WriteRaises_SelfHeal(report, made) ==
    /\ lastReport' = report
    /\ ioOnClosed' = (ioOnClosed \/ Stale(hid_interface))
    /\ calls' = [made EXCEPT !.write = @ + 1]
    /\ logged' = <<>>
    /\ outcome' = "write_failed"
    /\ escaped' = "HIDException"
    /\ pc' = "idle"
    /\ hid_interface' = None
    /\ timerActive' = FALSE

\* hid write raises: nothing catches it, the slot ends there
WriteRaises(report, made) ==
    /\ lastReport' = report
    /\ ioOnClosed' = (ioOnClosed \/ Stale(hid_interface))
    /\ calls' = [made EXCEPT !.write = @ + 1]
    /\ logged' = <<>>
    /\ outcome' = "write_failed"
    /\ escaped' = "HIDException"
    /\ pc' = "idle"
    /\ UNCHANGED <<hid_interface, timerActive>>

\* variant: the report is written a second time before the read
WriteDone_Rewrites(report, made) ==
    /\ lastReport' = report
    /\ ioOnClosed' = (ioOnClosed \/ Stale(hid_interface))
    /\ calls' = [made EXCEPT !.write = @ + 2]
    /\ logged' = <<>>
    /\ outcome' = "written"
    /\ escaped' = "none"
    /\ pc' = "reading"
    /\ UNCHANGED <<hid_interface, timerActive>>

\* hid write returns: the handler goes on into its blocking read
WriteDone(report, made) ==
    /\ lastReport' = report
    /\ ioOnClosed' = (ioOnClosed \/ Stale(hid_interface))
    /\ calls' = [made EXCEPT !.write = @ + 1]
    /\ logged' = <<>>
    /\ outcome' = "written"
    /\ escaped' = "none"
    /\ pc' = "reading"
    /\ UNCHANGED <<hid_interface, timerActive>>

\* send_raw_report up to and including the write; made = the calls this
\* handler made before
send_raw_report(data, writeOk, made) ==
    IF hid_interface = None THEN RawNotConnected(made)
    ELSE IF writeOk THEN WriteDone(EncodeReport(data), made)
    ELSE WriteRaises(EncodeReport(data), made)

\* variant: the guard of send_system_metrics is missing, so the metrics are
\* sampled and only send_raw_report notices that no handle is held
TickNoHandle_Unguarded ==
    /\ is_first_sample' = FALSE
    /\ logged' = <<"NotConnectedRaw">>
    /\ calls' = [NoCalls EXCEPT !.collect = 1, !.ram = 1]
    /\ outcome' = "not_connected"
    /\ escaped' = "none"
    /\ pc' = "idle"
    /\ UNCHANGED <<hid_interface, timerActive, lastReport, ioOnClosed>>

\* send_system_metrics with no handle: return at once
TickNoHandle ==
    /\ logged' = <<>>
    /\ calls' = NoCalls
    /\ outcome' = "noop"
    /\ escaped' = "none"
    /\ pc' = "idle"
    /\ UNCHANGED <<hid_interface, timerActive, is_first_sample, lastReport,
                   ioOnClosed>>

\* send_system_metrics with get_system_metrics and get_cpu_usage inlined
send_system_metrics(cpuReading, ramReading, writeOk) ==
    /\ op' = "tick"
    /\ wasConnected' = (hid_interface # None)
    /\ UNCHANGED <<cpu_query_handle, eventQueue, nextHandle, closeCount,
                   handlePath, discovered, surfaced, listed>>
    /\ IF hid_interface = None
       THEN TickNoHandle /\ UNCHANGED metricVars
       ELSE LET cpu == CpuUsage(is_first_sample, cpuReading)
                ram == PyInt(ramReading)
            IN  /\ is_first_sample' = FALSE
                /\ sampledOnce' = TRUE
                /\ sample' = [first |-> ~sampledOnce, cpuReading |-> cpuReading,
                              ramReading |-> ramReading, cpu_percent |-> cpu,
                              ram_percent |-> ram]
                /\ request' = MetricsData(cpu, ram)
                /\ send_raw_report(MetricsData(cpu, ram), writeOk,
                                   [NoCalls EXCEPT !.collect = 1, !.ram = 1])

\* variant: an empty read is retried once inside the same tick
ReadReturns_RetriesOnTimeout ==
    /\ pc = "reading"
    /\ \E response_report \in Responses :
          /\ ioOnClosed' = (ioOnClosed \/ Stale(hid_interface))
          /\ IF response_report # <<>>
             THEN /\ logged' = <<"Received">>
                  /\ surfaced' = response_report
                  /\ outcome' = "response"
                  /\ calls' = [calls EXCEPT !.read = @ + 1]
             ELSE /\ logged' = <<"NoResponse">>
                  /\ outcome' = "timeout"
                  /\ calls' = [calls EXCEPT !.read = @ + 2]
                  /\ UNCHANGED surfaced
    /\ pc' = "idle"
    /\ UNCHANGED <<hid_interface, timerActive, is_first_sample, cpu_query_handle,
                   eventQueue, nextHandle, closeCount, handlePath, discovered,
                   op, wasConnected, escaped, lastReport, metricVars, listed>>

\* the rest of send_raw_report: the blocking read returns and is logged
ReadReturns ==
    /\ pc = "reading"
    /\ \E response_report \in Responses :
          /\ ioOnClosed' = (ioOnClosed \/ Stale(hid_interface))
          /\ calls' = [calls EXCEPT !.read = @ + 1]
          /\ IF response_report # <<>>
             THEN /\ logged' = <<"Received">>
                  /\ surfaced' = response_report
                  /\ outcome' = "response"
             ELSE /\ logged' = <<"NoResponse">>
                  /\ outcome' = "timeout"
                  /\ UNCHANGED surfaced
    /\ pc' = "idle"
    /\ UNCHANGED <<hid_interface, timerActive, is_first_sample, cpu_query_handle,
                   eventQueue, nextHandle, closeCount, handlePath, discovered,
                   op, wasConnected, escaped, lastReport, metricVars, listed>>

\* ------------------------------------------------------------------- actions
\* __init__: initialize_cpu_counter, timer and button wiring, auto-connect;
\* an exception leaving __init__ ends the process
Startup ==
    /\ pc = "start"
    /\ cpu_query_handle' = 1
    /\ \E device_interfaces \in Enumerations, openOk \in BOOLEAN :
          handle_connect(device_interfaces, openOk, "idle", "terminated")
    /\ UNCHANGED <<eventQueue, listed>>

\* the user presses a button; the click waits in the event queue, also
\* while the GUI thread is blocked in a read
Click(button) ==
    /\ pc \in {"idle", "reading"}
    /\ Len(eventQueue) < MaxQueue
    /\ eventQueue' = Append(eventQueue, button)
    /\ UNCHANGED <<hid_interface, timerActive, is_first_sample, cpu_query_handle,
                   pc, nextHandle, closeCount, handlePath, discovered,
                   ioOnClosed, op, wasConnected, calls, outcome, logged,
                   escaped, lastReport, surfaced, metricVars, listed>>

ClickConnect == Click("connect")

ClickDisconnect == Click("disconnect")

\* connectBtm.clicked -> handle_connect; an exception in a slot is printed
\* and the event loop goes on
DispatchConnect ==
    /\ EventLoopIdle
    /\ eventQueue # <<>> /\ Head(eventQueue) = "connect"
    /\ hid_interface # None \/ CanOpen
    /\ eventQueue' = Tail(eventQueue)
    /\ \E device_interfaces \in Enumerations, openOk \in BOOLEAN :
          handle_connect(device_interfaces, openOk, "idle", "idle")
    /\ UNCHANGED <<cpu_query_handle, listed>>

\* disconnectBtm.clicked -> handle_disconnect
DispatchDisconnect ==
    /\ EventLoopIdle
    /\ eventQueue # <<>> /\ Head(eventQueue) = "disconnect"
    /\ eventQueue' = Tail(eventQueue)
    /\ handle_disconnect
    /\ UNCHANGED <<cpu_query_handle, listed>>

\* timer.timeout -> send_system_metrics
TimerTimeout ==
    /\ EventLoopIdle
    /\ timerActive
    /\ \E cpuReading \in CpuReadings, ramReading \in RamReadings, writeOk \in BOOLEAN :
          send_system_metrics(cpuReading, ramReading, writeOk)

\* tick() called by a front end, whatever the connection state
CallTick ==
    /\ EventLoopIdle
    /\ \E cpuReading \in CpuReadings, ramReading \in RamReadings, writeOk \in BOOLEAN :
          send_system_metrics(cpuReading, ramReading, writeOk)

\* send_raw_report(data) called directly with any command and payload
CallSendRaw ==
    /\ EventLoopIdle
    /\ \E data \in RawRequests, writeOk \in BOOLEAN :
          /\ op' = "raw"
          /\ wasConnected' = (hid_interface # None)
          /\ request' = data
          /\ send_raw_report(data, writeOk, NoCalls)
    /\ UNCHANGED <<is_first_sample, cpu_query_handle, eventQueue, nextHandle,
                   closeCount, handlePath, discovered, surfaced, sample,
                   sampledOnce, listed>>

Next ==
    \/ Startup
    \/ ClickConnect
    \/ ClickDisconnect
    \/ DispatchConnect
    \/ DispatchDisconnect
    \/ TimerTimeout
    \/ CallTick
    \/ ReadReturns

Spec == Init /\ [][Next]_vars

\* Startup, with the enumeration it was given recorded
ObservedStartup ==
    /\ pc = "start"
    /\ cpu_query_handle' = 1
    /\ \E device_interfaces \in ListedEnumerations, openOk \in BOOLEAN :
          /\ handle_connect(device_interfaces, openOk, "idle", "terminated")
          /\ listed' = device_interfaces
    /\ UNCHANGED eventQueue

\* DispatchConnect, with the enumeration recorded when hid.enumerate is called
ObservedConnect ==
    /\ EventLoopIdle
    /\ eventQueue # <<>> /\ Head(eventQueue) = "connect"
    /\ hid_interface # None \/ CanOpen
    /\ eventQueue' = Tail(eventQueue)
    /\ \E device_interfaces \in ListedEnumerations, openOk \in BOOLEAN :
          /\ handle_connect(device_interfaces, openOk, "idle", "idle")
          /\ listed' = IF hid_interface = None THEN device_interfaces ELSE listed
    /\ UNCHANGED cpu_query_handle

\* connect requests alone, every discovery recorded
DiscoverNext ==
    \/ ObservedStartup
    \/ ClickConnect
    \/ ObservedConnect

DiscoverSpec == Init /\ [][DiscoverNext]_vars

\* the program driven through send_raw_report alone, after startup
EncodeNext ==
    \/ Startup
    \/ CallSendRaw
    \/ ReadReturns

EncodeSpec == Init /\ [][EncodeNext]_vars

TypeOK ==
    /\ hid_interface \in {None} \cup Handles
    /\ timerActive \in BOOLEAN
    /\ is_first_sample \in BOOLEAN
    /\ pc \in {"start", "idle", "reading", "terminated"}
    /\ Len(eventQueue) <= MaxQueue
    /\ nextHandle \in 0..MaxHandles
    /\ Len(lastReport) \in {0, REPORT_LENGTH + 1}

\* -------------------------------------------------------------------- claims
\* Connected = a handle is held
Connected == hid_interface # None

\* the step starts a tick, from the timer or from a direct call
TickStarts == op' = "tick" /\ pc = "idle" /\ (TimerTimeout \/ CallTick)

\* C1: the connection state changes only in a step of the connect handler
\* (the automatic connect of startup included) or of the disconnect handler,
\* taken from the idle event loop or from startup; no step of a tick,
\* whatever its outcome, changes it.
C1_StateChangesOnlyOnRequest ==
    [][(Connected' # Connected) =>
          /\ pc \in {"start", "idle"}
          /\ op' \in {"connect", "disconnect"}
          /\ pc = "start" => op' = "connect"
          /\ calls'.collect = 0 /\ calls'.write = 0 /\ calls'.read = 0]_vars

\* a tick whose write failed has run and the handle is still held
C1_Witness ==
    op = "tick" /\ wasConnected /\ outcome = "write_failed" /\ Connected

\* C2: a connect whose discovery finds no matching endpoint leaves the state
\* Disconnected, does not start the timer and logs NoDeviceFound; a tick
\* called next writes and reads nothing.
C2_NoMatchConnect ==
    /\ [](op = "connect" /\ outcome = "no_match" =>
             /\ ~wasConnected
             /\ ~Connected
             /\ ~timerActive
             /\ logged = <<"NoDeviceFound">>
             /\ escaped = "none"
             /\ calls.open = 0 /\ calls.timerStart = 0)
    /\ [][(op = "connect" /\ outcome = "no_match" /\ TickStarts) =>
             /\ calls'.write = 0 /\ calls'.read = 0
             /\ lastReport' = lastReport
             /\ ~Connected' /\ ~timerActive']_vars

\* a tick has run after a discovery that found nothing
C2_Witness ==
    op = "tick" /\ outcome = "noop" /\ discovered = NoPath /\ pc = "idle"

\* C3 as claimed: a connect whose open fails leaves the state Disconnected
\* with the timer stopped, logs NoDeviceFound and lets no failure escape.
C3_OpenFailureSurfaced ==
    (op = "connect" /\ outcome = "open_failed") =>
        /\ ~Connected
        /\ ~timerActive
        /\ logged = <<"NoDeviceFound">>
        /\ escaped = "none"

\* C4 as claimed: a write failure while Connected is caught inside the tick
\* and logged; the state stays Connected and the timer keeps running.
C4_WriteFailureCaught ==
    (op = "tick" /\ outcome = "write_failed") =>
        /\ escaped = "none"
        /\ logged # <<>>
        /\ Connected
        /\ timerActive

\* C5: disconnect while Connected stops the timer, closes the held handle
\* once and leaves no handle held; disconnect while Disconnected logs
\* NotConnected, changes neither state nor timer and closes nothing.
C5_Disconnect ==
    [][DispatchDisconnect =>
          IF Connected
          THEN /\ ~timerActive'
               /\ ~Connected'
               /\ closeCount' = [closeCount EXCEPT ![hid_interface] = @ + 1]
               /\ calls'.close = 1 /\ calls'.timerStop = 1
               /\ logged' = <<"Disconnected">>
          ELSE /\ logged' = <<"NotConnected">>
               /\ UNCHANGED <<hid_interface, timerActive, closeCount>>
               /\ calls' = NoCalls]_vars

\* a disconnect has closed a handle that a connect had opened
C5_Witness ==
    op = "disconnect" /\ wasConnected /\ ~Connected /\ closeCount[1] = 1

\* C6: connect while Connected is a no-op that logs AlreadyConnected: no
\* enumeration, no open, and the handle, the state and the timer unchanged.
C6_ConnectWhileConnected ==
    [][(Connected /\ op' = "connect" /\ DispatchConnect) =>
          /\ logged' = <<"AlreadyConnected">>
          /\ calls' = NoCalls
          /\ escaped' = "none"
          /\ UNCHANGED <<hid_interface, timerActive, nextHandle, closeCount,
                         handlePath, discovered>>]_vars

\* a connect request has been served while a handle was held
C6_Witness ==
    op = "connect" /\ wasConnected /\ outcome = "already" /\ Connected

\* the handles opened so far that were not closed
OpenHandles == {h \in 1..nextHandle : closeCount[h] = 0}

\* C7: a tick while Disconnected samples, writes and reads nothing and
\* changes nothing; no report is written before the first successful
\* connect, nor by any step taken with no handle held.
C7_TickWhileDisconnected ==
    /\ [](nextHandle = 0 => lastReport = <<>>)
    /\ [][(~Connected /\ TickStarts) =>
             /\ calls' = NoCalls
             /\ logged' = <<>>
             /\ escaped' = "none"
             /\ UNCHANGED <<hid_interface, timerActive, is_first_sample,
                            lastReport, surfaced, ioOnClosed, closeCount, pc>>]_vars
    /\ [][(~Connected \/ ~Connected') => lastReport' = lastReport]_vars

\* a tick has run with no handle held, after a disconnect
C7_Witness ==
    op = "tick" /\ ~wasConnected /\ outcome = "noop" /\ closeCount[1] = 1

\* C8: at most one handle is open at any time; a handle is opened only when
\* none is held, by a connect that enumerated the devices itself and opened
\* the path that discovery returned; no handle is closed twice and no write
\* or read is issued on a closed handle.
C8_SingleHandle ==
    /\ [](/\ Cardinality(OpenHandles) <= 1
          /\ \A h \in Handles : closeCount[h] <= 1
          /\ \A h \in Handles : h > nextHandle => closeCount[h] = 0
          /\ ~ioOnClosed
          /\ Connected => OpenHandles = {hid_interface}
          /\ ~Connected => OpenHandles = {})
    /\ [][nextHandle' # nextHandle =>
             /\ ~Connected
             /\ OpenHandles = {}
             /\ nextHandle' = nextHandle + 1
             /\ hid_interface' = nextHandle'
             /\ calls'.enumerate = 1 /\ calls'.open = 1
             /\ discovered' # NoPath
             /\ handlePath'[nextHandle'] = discovered']_vars

\* a second handle is held after the first one was closed
C8_Witness ==
    nextHandle = 2 /\ hid_interface = 2 /\ closeCount[1] = 1 /\ op = "tick"

\* C9 as claimed: every tick that ran while Connected made one write
\* followed by one read.
C9_OneWriteOneRead ==
    (op = "tick" /\ wasConnected /\ pc = "idle") =>
        calls.write = 1 /\ calls.read = 1

\* C9 amended: every tick that runs while Connected makes exactly one write
\* call, of one report of REPORT_LENGTH + 1 bytes; when the write succeeds
\* exactly one read follows it, when the write fails no read is made.
C9_OneWriteThenRead ==
    (op = "tick" /\ wasConnected) =>
        /\ calls.write = 1
        /\ Len(lastReport) = REPORT_LENGTH + 1
        /\ pc \in {"idle", "reading"}
        /\ pc = "reading" => calls.read = 0 /\ outcome = "written"
        /\ pc = "idle" =>
              /\ outcome \in {"write_failed", "response", "timeout"}
              /\ calls.read = (IF outcome = "write_failed" THEN 0 ELSE 1)

\* a tick has completed its write and its read
C9_Witness ==
    op = "tick" /\ wasConnected /\ pc = "idle" /\ outcome = "response"
        /\ calls.write = 1 /\ calls.read = 1

\* C10: while a tick's exchange is in flight the handle stays held and open,
\* and the only steps are button clicks being queued and the read
\* returning: no second tick starts and no connect or disconnect handler
\* runs before the read is over; the read timeout is below the interval.
C10_NoOverlap ==
    /\ [](pc = "reading" =>
             /\ Connected /\ ~Stale(hid_interface)
             /\ op = "tick" /\ calls.write = 1 /\ calls.read = 0
             /\ ReadTimeoutMs < TimerIntervalMs)
    /\ [][pc = "reading" =>
             /\ ReadReturns \/ ClickConnect \/ ClickDisconnect
             /\ UNCHANGED <<hid_interface, timerActive, closeCount, lastReport>>]_vars

\* a disconnect was requested while the read of a tick is in flight
C10_Witness ==
    pc = "reading" /\ eventQueue # <<>> /\ Head(eventQueue) = "disconnect"

\* C11: for every command byte and every payload of 0..31 bytes the report
\* written has REPORT_LENGTH + 1 bytes: byte 0 is 0x00, byte 1 the command,
\* then the payload in order, then zeros; command 0x01 with cpu 57 and ram 82
\* gives 0x00 0x01 0x39 0x52 and 29 zero bytes.
C11_EncodeLayout ==
    (op = "raw" /\ calls.write = 1 /\ Len(request) \in 1..REPORT_LENGTH) =>
        /\ Len(lastReport) = REPORT_LENGTH + 1
        /\ lastReport[1] = 0
        /\ lastReport[2] = request[1]
        /\ \A i \in 2..Len(request) : lastReport[i + 1] = request[i]
        /\ \A i \in (Len(request) + 2)..(REPORT_LENGTH + 1) : lastReport[i] = 0
        /\ request = <<1, 57, 82>> => lastReport = <<0, 1, 57, 82>> \o Fill(29, 0)

\* a command with a payload of 31 bytes has been written
C11_Witness ==
    op = "raw" /\ calls.write = 1 /\ Len(request) = REPORT_LENGTH /\ request[1] = 255

\* C12 as claimed: a command with a payload of more than 31 bytes is refused
\* with PayloadTooLarge, nothing is written, and no report of more than
\* REPORT_LENGTH + 1 bytes is ever handed to write.
C12_PayloadTooLarge ==
    /\ Len(lastReport) <= REPORT_LENGTH + 1
    /\ (op = "raw" /\ wasConnected /\ Len(request) > REPORT_LENGTH) =>
          /\ calls.write = 0
          /\ escaped = "PayloadTooLarge"

\* a tick that ran with a handle held, and so sampled the metrics
SampledTick == op = "tick" /\ wasConnected

\* C13: the first get_cpu_usage call after the counter is set up returns 0
\* whatever the counter reads, every later call returns the reading rounded
\* to an integer, and the counter data is collected in both cases.
C13_FirstSampleSuppressed ==
    SampledTick =>
        /\ calls.collect = 1
        /\ sample.first => sample.cpu_percent = 0
        /\ ~sample.first =>
              /\ sample.cpu_percent = PyRound(sample.cpuReading)
              /\ 10 * sample.cpu_percent - sample.cpuReading \in -5..5

\* the first call has returned 0 for a counter reading of 57.4
C13_Witness ==
    SampledTick /\ sample.first /\ sample.cpuReading = 574 /\ sample.cpu_percent = 0

\* C14: the cpu and ram bytes of a tick's report are integers in 0..255,
\* congruent mod 256 to the values sampled, also for negative values and
\* values above 255; the command byte is 0x01.
C14_MaskedBytes ==
    SampledTick =>
        /\ lastReport[2] = 1
        /\ lastReport[3] \in 0..255
        /\ lastReport[4] \in 0..255
        /\ (sample.cpu_percent - lastReport[3]) % 256 = 0
        /\ (sample.ram_percent - lastReport[4]) % 256 = 0
        /\ request = <<1, lastReport[3], lastReport[4]>>

\* a negative cpu value and a ram value above 255 have been sent
C14_Witness ==
    SampledTick /\ sample.cpu_percent < 0 /\ sample.ram_percent > 255

\* C15: when the read of a tick returns nothing within its timeout, the tick
\* logs "no response" and ends: one write and one read were made, nothing
\* escaped, the handle is still held and the timer still runs, so that the
\* timer can start the next tick.
C15_ReadTimeout ==
    (op = "tick" /\ outcome = "timeout") =>
        /\ logged = <<"NoResponse">>
        /\ calls.write = 1 /\ calls.read = 1
        /\ escaped = "none"
        /\ Connected /\ ~Stale(hid_interface)
        /\ timerActive
        /\ pc = "idle"
        /\ ENABLED TimerTimeout

\* a tick has ended on an empty read
C15_Witness ==
    op = "tick" /\ outcome = "timeout" /\ pc = "idle" /\ calls.read = 1

\* C16 as claimed: a response is logged as received only when it has
\* REPORT_LENGTH bytes.
C16_ResponseLength ==
    (op = "tick" /\ outcome = "response" /\ logged = <<"Received">>) =>
        Len(surfaced) = REPORT_LENGTH

\* positions of the endpoints listed whose usage page and usage both equal
\* the configured ones
FullMatches ==
    {i \in 1..Len(listed) :
        /\ listed[i].vendor_id = VENDOR_ID /\ listed[i].product_id = PRODUCT_ID
        /\ listed[i].usage_page = USAGE_PAGE /\ listed[i].usage = USAGE}

\* C17: a discovery returns the path of the first endpoint, in enumeration
\* order, whose usage page and usage both match, and none when no endpoint
\* matches; an endpoint that matches in one of the two only is never chosen.
C17_FirstFullMatch ==
    (op = "connect" /\ calls.enumerate = 1) =>
        IF FullMatches = {}
        THEN discovered = NoPath /\ outcome = "no_match" /\ calls.open = 0
        ELSE /\ \E i \in FullMatches :
                  /\ \A j \in FullMatches : i <= j
                  /\ discovered = listed[i].path
             /\ calls.open = 1
             /\ outcome = "opened" => handlePath[hid_interface] = discovered

\* the second full match was skipped for the first, listed after an endpoint
\* that shares the usage page only
C17_Witness ==
    /\ op = "connect" /\ outcome = "opened" /\ Len(listed) = 3
    /\ listed[1].path = "C" /\ listed[2].path = "B" /\ listed[3].path = "A"
    /\ discovered = "B"

C19_BaselineKept ==
    /\ is_first_sample <=> ~sampledOnce
    /\ (SampledTick /\ ~sample.first) =>
          lastReport[3] = PyRound(sample.cpuReading) % 256

\* a tick on the second connection has sent the counter value 57 for a
\* reading of 57.4: the suppression was not re-armed by the reconnect
C19_Witness ==
    /\ SampledTick /\ ~sample.first
    /\ hid_interface = 2 /\ sample.cpuReading = 574 /\ lastReport[3] = 57

\* C20 as claimed: startup sets up the CPU counter, makes exactly one connect
\* attempt and leaves either Connected with the timer running, or
\* Disconnected with the timer stopped and NoDeviceFound logged; no handler
\* has run before it.
C20_Startup ==
    /\ [](pc = "start" => op = "none" /\ calls = NoCalls /\ ~Connected /\ ~timerActive)
    /\ [][(pc = "start" /\ Startup) =>
             /\ cpu_query_handle' # None
             /\ op' = "connect" /\ calls'.enumerate = 1
             /\ pc' = "idle"
             /\ IF outcome' = "opened"
                THEN Connected' /\ timerActive'
                ELSE /\ ~Connected' /\ ~timerActive'
                     /\ logged' = <<"NoDeviceFound">>]_vars
====
